---------------------------- MODULE Spec2Model ----------------------------
(***************************************************************************)
(* The relationship graph core of relations-obsidian: RelationGraph.build  *)
(* over a mutable vault, the three-colour cycle detector, the generational *)
(* BFS of the relationship engine and the path finder.                     *)
(*                                                                         *)
(* A file is identified by its path (a string).  The vault holds markdown  *)
(* notes (enumerated by getMarkdownFiles) and attachments (resolvable by   *)
(* getFirstLinkpathDest, never enumerated).                                *)
(***************************************************************************)
EXTENDS Integers, Sequences, FiniteSets, TLC

VARIABLES
    vault,      \* app.vault.getMarkdownFiles(): the notes, in enumeration order
    fm,         \* per note, the declared value of the parent field
    graph,      \* RelationGraph.graph: Map<string, NodeInfo>, in insertion order
    detector,   \* RelationGraph.cycleDetector: installed by build() or not
    last,       \* history: what the last vault event or build() was
    earlier,    \* history: a traversal result its caller has kept, or nothing
    m           \* the query in progress (its locals and position), or idle

vars == <<vault, fm, graph, detector, last, earlier, m>>

\* What a query leaves alone.
world == <<vault, fm, graph, detector, last, earlier>>

-----------------------------------------------------------------------------
(* Universe *)

\* Markdown notes that may exist in the vault.
Docs == {"a", "b", "c"}

\* Non-markdown files of the vault: link targets, never graph nodes.
Attachments == {"x"}

\* Every file a link can resolve to.
Files == Docs \cup Attachments

\* Reference strings a note may declare (a name resolves while that file exists).
Refs == Files

\* Notes the vault's life creates, renames and deletes.
LifeDocs == {"a", "b"}

\* References a vault under change declares in total, at most.
MaxDeclared == 2

\* References the vault of a query run declares in total, at most.
MaxEdges == 3

NoFile == "null"

Range(s) == {s[i] : i \in 1..Len(s)}

SeqsUpTo(S, n) == UNION {[1..k -> S] : k \in 0..n}

NoDup(s) == \A i, j \in 1..Len(s) : i # j => s[i] # s[j]

-----------------------------------------------------------------------------
(* Frontmatter values of the parent field: absent, a scalar, or a list *)

Absent == [kind |-> "absent", refs |-> <<>>]

Scalar(r) == [kind |-> "scalar", refs |-> <<r>>]

List(rs) == [kind |-> "list", refs |-> rs]

FieldValues(refs, n) ==
    {Absent} \cup {Scalar(r) : r \in refs} \cup {List(rs) : rs \in SeqsUpTo(refs, n)}

RECURSIVE SumLen(_, _)
SumLen(cache, ds) ==
    IF ds = {} THEN 0
    ELSE LET d == CHOOSE x \in ds : TRUE
         IN  Len(cache[d].refs) + SumLen(cache, ds \ {d})

\* References declared in the whole vault.
Declared(cache) == SumLen(cache, DOMAIN cache)

\* The metadata caches of the notes ds that declare n references or fewer in
\* all, every parent field a list.
RECURSIVE Caches(_, _)
Caches(ds, n) ==
    IF ds = {} THEN {<<>>}
    ELSE LET d == CHOOSE x \in ds : TRUE
         IN  UNION {{(d :> List(rs)) @@ c : c \in Caches(ds \ {d}, n - Len(rs))} :
                    rs \in SeqsUpTo(Refs, n)}

-----------------------------------------------------------------------------
(* RelationGraph *)

\* metadataCache.getFirstLinkpathDest(ref, sourcePath): the file named ref, if
\* the vault holds it.
GetFirstLinkpathDest(files, ref, sourcePath) ==
    IF ref \in Range(files) \cup Attachments THEN ref ELSE NoFile

\* resolveLink(ref, meta)
ResolveLink(files, ref, metaPath) == GetFirstLinkpathDest(files, ref, metaPath)

\* Mutant: the first entry that does not resolve ends the list.
RECURSIVE MapFilterResolveStop(_, _, _)
MapFilterResolveStop(files, arr, metaPath) ==
    IF arr = <<>> THEN <<>>
    ELSE LET r == GetFirstLinkpathDest(files, Head(arr), metaPath)
         IN  IF r = NoFile THEN <<>>
             ELSE <<r>> \o MapFilterResolveStop(files, Tail(arr), metaPath)

\* arr.map(ref => resolveLink(ref, meta)).filter(Boolean)
RECURSIVE MapFilterResolve(_, _, _)
MapFilterResolve(files, arr, metaPath) ==
    IF arr = <<>> THEN <<>>
    ELSE LET r == ResolveLink(files, Head(arr), metaPath)
             rest == MapFilterResolve(files, Tail(arr), metaPath)
         IN  IF r = NoFile THEN rest ELSE <<r>> \o rest

\* meta?.path: meta is what getFileCache(file) returned, the note's cached
\* metadata, which carries the frontmatter and no path, so this is undefined.
MetaPath(meta) == IF "path" \in DOMAIN meta THEN meta.path ELSE NoFile

\* extractParentLinks(meta): meta is the note's cached metadata.
ExtractParentLinks(files, field) ==
    IF field.kind = "absent" THEN <<>>
    ELSE MapFilterResolve(files, field.refs, MetaPath(field))

\* Position of key in the map, 0 when absent.
KeyIndex(g, key) ==
    IF \E i \in 1..Len(g) : g[i].file = key
    THEN CHOOSE i \in 1..Len(g) : g[i].file = key
    ELSE 0

\* Map.set(key, info): overwrite in place, or append.
MapSet(g, info) ==
    LET i == KeyIndex(g, info.file)
    IN  IF i = 0 THEN Append(g, info) ELSE [g EXCEPT ![i] = info]

\* Mutant: build() does not clear the map it finds.
MapKeep(g) == g

\* Map.clear()
MapClear(g) == <<>>

\* files.forEach(file => graph.set(file.path, {file, parents, children: []}))
RECURSIVE SetNodes(_, _, _, _)
SetNodes(g, files, cache, i) ==
    IF i > Len(files) THEN g
    ELSE SetNodes(
            MapSet(g, [file |-> files[i],
                       parents |-> ExtractParentLinks(files, cache[files[i]]),
                       children |-> <<>>]),
            files, cache, i + 1)

\* Mutant: a note is never pushed onto its own children.
PushChildNotSelf(g, parent, child) ==
    LET i == KeyIndex(g, parent)
    IN  IF i = 0 \/ parent = child THEN g
        ELSE [g EXCEPT ![i].children = Append(@, child)]

\* graph.get(parent.path)?.children.push(child)
PushChild(g, parent, child) ==
    LET i == KeyIndex(g, parent)
    IN  IF i = 0 THEN g
        ELSE [g EXCEPT ![i].children = Append(@, child)]

\* node.parents.forEach(parent => ...push(node.file)), from the j-th parent on
RECURSIVE PushToParents(_, _, _)
PushToParents(g, n, j) ==
    IF j > Len(g[n].parents) THEN g
    ELSE PushToParents(PushChild(g, g[n].parents[j], g[n].file), n, j + 1)

\* for (const node of this.graph.values()) ..., from the n-th node on
RECURSIVE FillChildren(_, _)
FillChildren(g, n) ==
    IF n > Len(g) THEN g
    ELSE FillChildren(PushToParents(g, n, 1), n + 1)

\* build(): the node map it leaves, starting from the map g it finds.
BuildFrom(g, files, cache) ==
    FillChildren(SetNodes(MapClear(g), files, cache, 1), 1)

\* getParents(file)
GetParents(g, f) ==
    LET i == KeyIndex(g, f) IN IF i = 0 THEN <<>> ELSE g[i].parents

\* getChildren(file)
GetChildren(g, f) ==
    LET i == KeyIndex(g, f) IN IF i = 0 THEN <<>> ELSE g[i].children

\* getAllFiles()
GetAllFiles(g) == [i \in 1..Len(g) |-> g[i].file]

-----------------------------------------------------------------------------
(* CycleDetector: three-colour depth-first search over parent links.       *)
(* A run is a record: the locals of detectCycle/hasCycles and of the dfs   *)
(* calls on the stack (one frame per call: its node and the position i of  *)
(* its loop over the node's parents).                                      *)

WHITE == "unvisited"

GRAY == "visiting"

BLACK == "visited"

Idle == [kind |-> "idle"]

\* No result kept.
Nothing == [kind |-> "nothing"]

NoRet == "none"

\* null, where a CycleInfo or a NotePath may be returned
Null == [null |-> TRUE]

\* Mutant: the cycle is taken to begin at the bottom of the path stack.
FindIndexBottom(path, f) == 1

\* path.findIndex(f => f.path === cycleStart.path), 1-based; 0 for JS's -1
FindIndex(path, f) ==
    IF \E i \in 1..Len(path) : path[i] = f
    THEN CHOOSE i \in 1..Len(path) : path[i] = f /\ \A j \in 1..(i - 1) : path[j] # f
    ELSE 0

\* path.slice(cycleStartIndex): from that index on; slice(-1) is the last entry
Slice(path, idx) ==
    IF idx = 0
    THEN IF path = <<>> THEN <<>> ELSE <<path[Len(path)]>>
    ELSE SubSeq(path, idx, Len(path))

\* buildCycleInfo(cycleStart, path)
BuildCycleInfo(cycleStart, path) ==
    LET cyclePath == Append(Slice(path, FindIndex(path, cycleStart)), cycleStart)
    IN  [cyclePath |-> cyclePath,
         startFile |-> path[1],
         description |-> <<"Cycle detected:", cyclePath>>,
         length |-> Len(cyclePath) - 1]

\* Mutant: two colours only, a finished node reads as one on the stack.
StateOfTwoColour(states, f) == IF states[f] = BLACK THEN GRAY ELSE states[f]

\* states.get(path) || NodeState.WHITE
StateOf(states, f) == states[f]

\* First lines of dfs(current, states, path): colour it, push it, open its frame.
DfsEnter(r, current) ==
    [r EXCEPT !.pc = "dfs",
              !.states[current] = GRAY,
              !.path = Append(@, current),
              !.frames = Append(@, [node |-> current, i |-> 1]),
              !.entered = Append(@, current)]

\* A dfs call returned a CycleInfo: every caller returns it at once, and
\* hasCycles turns it into true.
DfsFound(r, info) ==
    [r EXCEPT !.pc = "done",
              !.ret = IF r.op = "hasCycles" THEN TRUE ELSE info]

\* Mutant: a node left by dfs is made WHITE again.
DfsLeaveUncoloured(g, r) ==
    LET top == r.frames[Len(r.frames)]
        popped == [r EXCEPT !.states[top.node] = WHITE,
                            !.path = SubSeq(@, 1, Len(@) - 1),
                            !.frames = SubSeq(@, 1, Len(@) - 1)]
    IN  IF Len(popped.frames) > 0
        THEN [popped EXCEPT !.frames[Len(popped.frames)].i = @ + 1]
        ELSE IF r.op = "hasCycles"
             THEN [popped EXCEPT !.pc = "scan", !.k = @ + 1]
             ELSE [popped EXCEPT !.pc = "done", !.ret = Null]

\* Last lines of dfs: colour the node BLACK, pop it, return null to the caller.
DfsLeave(g, r) ==
    LET top == r.frames[Len(r.frames)]
        popped == [r EXCEPT !.states[top.node] = BLACK,
                            !.path = SubSeq(@, 1, Len(@) - 1),
                            !.frames = SubSeq(@, 1, Len(@) - 1)]
    IN  IF Len(popped.frames) > 0
        THEN \* back in the caller's loop: next parent
             [popped EXCEPT !.frames[Len(popped.frames)].i = @ + 1]
        ELSE IF r.op = "hasCycles"
             THEN [popped EXCEPT !.pc = "scan", !.k = @ + 1]
             ELSE [popped EXCEPT !.pc = "done", !.ret = Null]

\* One turn of dfs's loop over the parents of the node on top of the stack.
DfsStep(g, r) ==
    LET top == r.frames[Len(r.frames)]
        parents == GetParents(g, top.node)
    IN  IF top.i > Len(parents) THEN DfsLeave(g, r)
        ELSE LET parent == parents[top.i]
                 state == StateOf(r.states, parent)
             IN  IF state = GRAY THEN DfsFound(r, BuildCycleInfo(parent, r.path))
                 ELSE IF state = WHITE THEN DfsEnter(r, parent)
                 ELSE [r EXCEPT !.frames[Len(r.frames)].i = @ + 1]

\* Mutant: hasCycles searches from the first file only.
ScanStepFirstOnly(g, r) ==
    IF r.k > 1 \/ r.k > Len(r.allFiles) THEN [r EXCEPT !.pc = "done", !.ret = FALSE]
    ELSE DfsEnter([r EXCEPT !.path = <<>>], r.allFiles[r.k])

\* Mutant: hasCycles starts every search with states of its own.
ScanStepFreshStates(g, r) ==
    IF r.k > Len(r.allFiles) THEN [r EXCEPT !.pc = "done", !.ret = FALSE]
    ELSE DfsEnter([r EXCEPT !.path = <<>>, !.states = [f \in Files |-> WHITE]],
                  r.allFiles[r.k])

\* One turn of hasCycles's loop over allFiles.
ScanStep(g, r) ==
    IF r.k > Len(r.allFiles) THEN [r EXCEPT !.pc = "done", !.ret = FALSE]
    ELSE LET file == r.allFiles[r.k]
         IN  IF StateOf(r.states, file) = WHITE
             THEN DfsEnter([r EXCEPT !.path = <<>>], file)
             ELSE [r EXCEPT !.k = @ + 1]

CycleRun(op, start) ==
    [kind |-> "cycle", op |-> op, pc |-> "scan", start |-> start,
     states |-> [f \in Files |-> WHITE], path |-> <<>>, frames |-> <<>>,
     allFiles |-> <<>>, k |-> 1, ret |-> NoRet, steps |-> 0, entered |-> <<>>]

\* detectCycle(startFile): fresh states and path, then dfs(startFile, ...)
DetectCycleCall(g, startFile) == DfsEnter(CycleRun("detectCycle", startFile), startFile)

\* hasCycles(): allFiles = getAllFiles(), fresh states, then the loop
HasCyclesCall(g) == [CycleRun("hasCycles", NoFile) EXCEPT !.allFiles = GetAllFiles(g)]

\* The next step of a cycle-detector run that has not returned.
CycleStep(g, r) ==
    LET s == IF r.pc = "dfs" THEN DfsStep(g, r) ELSE ScanStep(g, r)
    IN  [s EXCEPT !.steps = r.steps + 1]

-----------------------------------------------------------------------------
(* RelationshipEngine: generational breadth-first traversal.  A run holds  *)
(* the locals of getAncestors/getDescendants: ci is the position of the    *)
(* loop over currentGeneration, pi the position of the loop over the       *)
(* relatives of currentGeneration[ci].                                     *)

\* Mutant: both traversals follow the parents.
RelativesUp(g, op, current) == GetParents(g, current)

\* this.graph.getParents(current) in getAncestors, getChildren(current) in
\* getDescendants
Relatives(g, op, current) ==
    IF op = "getAncestors" THEN GetParents(g, current) ELSE GetChildren(g, current)

\* Mutant: visited is kept from the traversal before instead of starting as
\* the start file alone.
EngineCallStale(op, file, maxDepth) ==
    [kind |-> "engine", op |-> op, pc |-> "level", file |-> file, depth |-> maxDepth,
     result |-> <<>>,
     visited |-> {file} \cup (IF earlier = Nothing THEN {}
                              ELSE UNION {Range(earlier.ret[k]) : k \in 1..Len(earlier.ret)}),
     currentGeneration |-> <<file>>,
     level |-> 0, nextGeneration |-> <<>>, seenInGeneration |-> {},
     ci |-> 1, pi |-> 1, ret |-> NoRet, steps |-> 0, expanded |-> <<>>]

\* Mutant: visited starts empty, the start file is not marked.
EngineCallUnseeded(op, file, maxDepth) ==
    [kind |-> "engine", op |-> op, pc |-> "level", file |-> file, depth |-> maxDepth,
     result |-> <<>>, visited |-> {}, currentGeneration |-> <<file>>,
     level |-> 0, nextGeneration |-> <<>>, seenInGeneration |-> {},
     ci |-> 1, pi |-> 1, ret |-> NoRet, steps |-> 0, expanded |-> <<>>]

\* getAncestors(file, maxDepth) / getDescendants(file, maxDepth): the locals
\* before the loop over levels.
EngineCall(op, file, maxDepth) ==
    [kind |-> "engine", op |-> op, pc |-> "level", file |-> file, depth |-> maxDepth,
     result |-> <<>>, visited |-> {file}, currentGeneration |-> <<file>>,
     level |-> 0, nextGeneration |-> <<>>, seenInGeneration |-> {},
     ci |-> 1, pi |-> 1, ret |-> NoRet, steps |-> 0, expanded |-> <<>>]

\* Mutant: the loop over levels runs while level <= depth.
LevelStepInclusive(r) ==
    IF r.level <= r.depth
    THEN [r EXCEPT !.pc = "scan", !.nextGeneration = <<>>, !.seenInGeneration = {},
                   !.ci = 1, !.pi = 1]
    ELSE [r EXCEPT !.pc = "done", !.ret = r.result]

\* for (let level = 0; level < depth; level++): the loop test and the fresh
\* nextGeneration and seenInGeneration of one level
LevelStep(r) ==
    IF r.level < r.depth
    THEN [r EXCEPT !.pc = "scan", !.nextGeneration = <<>>, !.seenInGeneration = {},
                   !.ci = 1, !.pi = 1]
    ELSE [r EXCEPT !.pc = "done", !.ret = r.result]

\* After the loop over currentGeneration: break on an empty nextGeneration,
\* else push it and go to the next level.
GenerationEnd(r) ==
    IF Len(r.nextGeneration) = 0
    THEN [r EXCEPT !.pc = "done", !.ret = r.result]
    ELSE [r EXCEPT !.pc = "level",
                   !.result = Append(@, r.nextGeneration),
                   !.currentGeneration = r.nextGeneration,
                   !.level = @ + 1]

\* Mutant: no visited test, only the deduplication within the generation.
SkipsSeenOnly(r, relative) == relative \in r.seenInGeneration

\* The two skip tests of the inner loop.
Skips(r, relative) == relative \in r.visited \/ relative \in r.seenInGeneration

\* Mutant: the relative is put in front of the generation.
PushFront(generation, relative) == <<relative>> \o generation

\* nextGeneration.push(parent)
Push(generation, relative) == Append(generation, relative)

\* One turn of the inner loop, on relative pi of currentGeneration[ci] (whose
\* relatives are fetched when pi = 1).
ScanRelative(g, r) ==
    LET current == r.currentGeneration[r.ci]
        relatives == Relatives(g, r.op, current)
        fetched == IF r.pi = 1 THEN [r EXCEPT !.expanded = Append(@, current)] ELSE r
    IN  IF r.pi > Len(relatives)
        THEN [fetched EXCEPT !.ci = @ + 1, !.pi = 1]
        ELSE LET relative == relatives[r.pi]
             IN  IF Skips(r, relative)
                 THEN [fetched EXCEPT !.pi = @ + 1]
                 ELSE [fetched EXCEPT !.nextGeneration = Push(@, relative),
                                      !.seenInGeneration = @ \cup {relative},
                                      !.visited = @ \cup {relative},
                                      !.pi = @ + 1]

\* The next step of a traversal that has not returned.
EngineStep(g, r) ==
    LET s == IF r.pc = "level" THEN LevelStep(r)
             ELSE IF r.ci > Len(r.currentGeneration) THEN GenerationEnd(r)
             ELSE ScanRelative(g, r)
    IN  [s EXCEPT !.steps = r.steps + 1]

-----------------------------------------------------------------------------
(* Path finder: findShortestPath (breadth-first, one queue) and            *)
(* findAllPaths (depth-first, one frame per dfs call on the stack).        *)

\* A NotePath
NotePath(start, end, path, direction) ==
    [start |-> start, end |-> end, path |-> path, length |-> Len(path) - 1,
     direction |-> direction]

\* findShortestPath(start, end, graph): the early exit, or the locals before
\* the loop over the queue.
ShortestCall(start, end) ==
    LET r == [kind |-> "shortest", pc |-> "dequeue", start |-> start, end |-> end,
              queue |-> <<[node |-> start, path |-> <<start>>]>>,
              visited |-> {start}, node |-> NoFile, path |-> <<>>,
              phase |-> "parents", i |-> 1, ret |-> NoRet, steps |-> 0,
              dequeued |-> <<>>]
    IN  IF start = end
        THEN [r EXCEPT !.pc = "done", !.queue = <<>>, !.visited = {},
                       !.ret = NotePath(start, end, <<start>>, "mixed")]
        ELSE r

\* while (queue.length > 0) { const {node, path} = queue.shift()! ... }
DequeueStep(r) ==
    IF Len(r.queue) = 0
    THEN [r EXCEPT !.pc = "done", !.ret = Null]
    ELSE [r EXCEPT !.pc = "scan",
                   !.node = Head(r.queue).node,
                   !.path = Head(r.queue).path,
                   !.queue = Tail(r.queue),
                   !.phase = "parents",
                   !.i = 1,
                   !.dequeued = Append(@, Head(r.queue).node)]

\* The relatives one of the two inner loops runs over.
PhaseList(g, phase, node) ==
    IF phase = "parents" THEN GetParents(g, node) ELSE GetChildren(g, node)

\* if (!visited.has(x.path)) { visited.add(x.path); queue.push(...) }
Enqueue(r, x) ==
    IF x \in r.visited THEN r
    ELSE [r EXCEPT !.visited = @ \cup {x},
                   !.queue = Append(@, [node |-> x, path |-> Append(r.path, x)])]

\* One turn of the loop over the parents, then over the children, of node.
NeighbourStep(g, r) ==
    LET list == PhaseList(g, r.phase, r.node)
    IN  IF r.i > Len(list)
        THEN IF r.phase = "parents"
             THEN [r EXCEPT !.phase = "children", !.i = 1]
             ELSE [r EXCEPT !.pc = "dequeue"]
        ELSE LET x == list[r.i]
             IN  IF x = r.end
                 THEN [r EXCEPT !.pc = "done",
                                !.ret = NotePath(r.start, r.end, Append(r.path, x),
                                            IF r.phase = "parents" THEN "up" ELSE "down")]
                 ELSE [Enqueue(r, x) EXCEPT !.i = @ + 1]

\* The next step of a findShortestPath run that has not returned.
ShortestStep(g, r) ==
    LET s == IF r.pc = "dequeue" THEN DequeueStep(r) ELSE NeighbourStep(g, r)
    IN  [s EXCEPT !.steps = r.steps + 1]

\* determineDirection(path, graph)
DetermineDirection(g, path) ==
    IF Len(path) < 2 THEN "mixed"
    ELSE LET hasUp == \E i \in 1..(Len(path) - 1) :
                          path[i + 1] \in Range(GetParents(g, path[i]))
             hasDown == \E i \in 1..(Len(path) - 1) :
                          path[i + 1] \in Range(GetChildren(g, path[i]))
         IN  IF hasUp /\ ~hasDown THEN "up"
             ELSE IF hasDown /\ ~hasUp THEN "down"
             ELSE "mixed"

\* paths.sort((a, b) => a.length - b.length): stable, ascending length
RECURSIVE InsertByLength(_, _)
InsertByLength(sorted, p) ==
    IF sorted = <<>> THEN <<p>>
    ELSE IF Head(sorted).length > p.length THEN <<p>> \o sorted
    ELSE <<Head(sorted)>> \o InsertByLength(Tail(sorted), p)

RECURSIVE SortByLength(_)
SortByLength(paths) ==
    IF paths = <<>> THEN <<>>
    ELSE InsertByLength(SortByLength(SubSeq(paths, 1, Len(paths) - 1)), paths[Len(paths)])

\* Mutant: no pruning by length.
TooLongNever(path, maxLength) == FALSE

\* if (path.length > maxLength) return;
TooLong(path, maxLength) == Len(path) > maxLength

\* A dfs call of findAllPaths returned: its caller's loop goes on, and with no
\* caller left findAllPaths sorts and returns.
AllReturn(r) ==
    IF Len(r.frames) = 0
    THEN [r EXCEPT !.pc = "done", !.ret = SortByLength(r.paths)]
    ELSE [r EXCEPT !.frames[Len(r.frames)].i = @ + 1]

\* dfs(current, target, path, visited), up to its loops: return at once, or
\* mark current and open the frame.
AllEnter(g, r, current, path, visited) ==
    LET called == [r EXCEPT !.calls = Append(@, path)]
    IN  IF TooLong(path, r.maxLength) THEN AllReturn(called)
        ELSE IF current = r.end
        THEN AllReturn([called EXCEPT
                 !.paths = Append(@, NotePath(r.start, r.end, path,
                                              DetermineDirection(g, path)))])
        ELSE [called EXCEPT !.frames = Append(@,
                 [current |-> current, path |-> path,
                  visited |-> visited \cup {current},
                  phase |-> "parents", i |-> 1])]

\* findAllPaths(start, end, graph, maxLength): dfs(start, end, [start], new Set())
AllPathsCall(g, start, end, maxLength) ==
    AllEnter(g,
        [kind |-> "all", pc |-> "dfs", start |-> start, end |-> end,
         maxLength |-> maxLength, paths |-> <<>>, frames |-> <<>>,
         ret |-> NoRet, steps |-> 0, calls |-> <<>>],
        start, <<start>>, {})

\* Mutant: no visited test before the recursive call.
UnvisitedAny(top, x) == TRUE

\* if (!visited.has(x.path)) dfs(x, target, [...path, x], new Set(visited))
Unvisited(top, x) == x \notin top.visited

\* One turn of the loops over the parents, then the children, of the dfs call
\* on top of the stack.
AllLoopStep(g, r) ==
    LET n == Len(r.frames)
        top == r.frames[n]
        list == PhaseList(g, top.phase, top.current)
    IN  IF top.i > Len(list)
        THEN IF top.phase = "parents"
             THEN [r EXCEPT !.frames[n].phase = "children", !.frames[n].i = 1]
             ELSE AllReturn([r EXCEPT !.frames = SubSeq(@, 1, n - 1)])
        ELSE LET x == list[top.i]
             IN  IF Unvisited(top, x)
                 THEN AllEnter(g, r, x, Append(top.path, x), top.visited)
                 ELSE [r EXCEPT !.frames[n].i = @ + 1]

\* The next step of a findAllPaths run that has not returned.
AllPathsStep(g, r) == [AllLoopStep(g, r) EXCEPT !.steps = r.steps + 1]

-----------------------------------------------------------------------------
(* The vault's life and build() *)

TypeOK ==
    /\ vault \in SeqsUpTo(Docs, Cardinality(Docs))
    /\ NoDup(vault)
    /\ DOMAIN fm = Range(vault)
    /\ \A d \in Range(vault) :
          /\ fm[d].kind \in {"absent", "scalar", "list"}
          /\ Range(fm[d].refs) \subseteq Refs
          /\ fm[d].kind = "absent" => fm[d].refs = <<>>
          /\ fm[d].kind = "scalar" => Len(fm[d].refs) = 1

\* new RelationGraph(app, parentField) on an empty vault
Init ==
    /\ vault = <<>>
    /\ fm = <<>>
    /\ graph = <<>>
    /\ detector = FALSE
    /\ last = "new"
    /\ earlier = Nothing
    /\ m = Idle

\* A note is created with some frontmatter.
CreateDoc(d, v) ==
    /\ d \notin Range(vault)
    /\ Declared(fm) + Len(v.refs) <= MaxDeclared
    /\ vault' = Append(vault, d)
    /\ fm' = [x \in Range(vault) \cup {d} |-> IF x = d THEN v ELSE fm[x]]
    /\ last' = "change"
    /\ UNCHANGED <<graph, detector, earlier, m>>

\* A note's frontmatter is edited.
ModifyDoc(d, v) ==
    /\ d \in Range(vault)
    /\ fm[d] # v
    /\ Declared(fm) - Len(fm[d].refs) + Len(v.refs) <= MaxDeclared
    /\ fm' = [fm EXCEPT ![d] = v]
    /\ last' = "change"
    /\ UNCHANGED <<vault, graph, detector, earlier, m>>

\* A note is renamed: same place in the enumeration, same frontmatter.
RenameDoc(d, e) ==
    /\ d \in Range(vault)
    /\ e \notin Range(vault)
    /\ vault' = [i \in 1..Len(vault) |-> IF vault[i] = d THEN e ELSE vault[i]]
    /\ fm' = [x \in (Range(vault) \ {d}) \cup {e} |-> IF x = e THEN fm[d] ELSE fm[x]]
    /\ last' = "change"
    /\ UNCHANGED <<graph, detector, earlier, m>>

\* A note is deleted.
DeleteDoc(d) ==
    /\ d \in Range(vault)
    /\ vault' = SelectSeq(vault, LAMBDA x : x # d)
    /\ fm' = [x \in Range(vault) \ {d} |-> fm[x]]
    /\ last' = "change"
    /\ UNCHANGED <<graph, detector, earlier, m>>

\* build()
Build ==
    /\ UNCHANGED <<vault, fm, earlier, m>>
    /\ last' = IF detector /\ last # "change" THEN "again"
               ELSE IF graph = <<>> THEN "build"
               ELSE "rebuild"
    /\ graph' = BuildFrom(graph, vault, fm)
    /\ detector' = TRUE

LifeValues == FieldValues(LifeDocs \cup Attachments, MaxDeclared)

Next ==
    \/ \E d \in LifeDocs, v \in LifeValues : CreateDoc(d, v)
    \/ \E d \in LifeDocs, v \in LifeValues : ModifyDoc(d, v)
    \/ \E d, e \in LifeDocs : RenameDoc(d, e)
    \/ \E d \in LifeDocs : DeleteDoc(d)
    \/ Build

Spec == Init /\ [][Next]_vars

-----------------------------------------------------------------------------
(* Query runs on a built graph.  The vault is any vault within the bounds  *)
(* (its notes in enumeration order a, b, c; up to relabelling that is any  *)
(* order), the graph is what build() made of it.                           *)

NoteOrder == <<"a", "b", "c">>

QueryVaults == {SubSeq(NoteOrder, 1, n) : n \in 0..Len(NoteOrder)}

QueryInit ==
    /\ vault \in QueryVaults
    /\ fm \in Caches(Range(vault), MaxEdges)
    /\ graph = BuildFrom(<<>>, vault, fm)
    /\ detector = TRUE
    /\ last = "build"
    /\ earlier = Nothing
    /\ m = Idle

\* A call on this.cycleDetector while the field is still undefined: the call
\* throws a TypeError to the caller.
Threw == [kind |-> "threw", pc |-> "done", error |-> "TypeError"]

\* graph.detectCycle(file) is called.
CallDetectCycle(f) ==
    /\ m = Idle
    /\ m' = IF detector THEN DetectCycleCall(graph, f) ELSE Threw
    /\ UNCHANGED world

\* graph.hasCycles() is called.
CallHasCycles ==
    /\ m = Idle
    /\ m' = IF detector THEN HasCyclesCall(graph) ELSE Threw
    /\ UNCHANGED world

\* The running cycle query takes its next step.
StepCycle ==
    /\ m.kind = "cycle"
    /\ m.pc # "done"
    /\ m' = CycleStep(graph, m)
    /\ UNCHANGED world

\* The query has returned; the caller goes on.
Return ==
    /\ m.kind # "idle"
    /\ m.pc = "done"
    /\ m' = Idle
    /\ UNCHANGED world

NextCycle ==
    \/ \E f \in Files : CallDetectCycle(f)
    \/ CallHasCycles
    \/ StepCycle
    \/ Return

SpecCycle == QueryInit /\ [][NextCycle]_vars

\* Largest maxDepth a traversal is called with (the least is -1).
MaxDepth == 3

Depths == (-1)..MaxDepth

\* engine.getAncestors(file, maxDepth) is called.
CallGetAncestors(f, n) ==
    /\ m = Idle
    /\ m' = EngineCall("getAncestors", f, n)
    /\ UNCHANGED world

\* engine.getDescendants(file, maxDepth) is called.
CallGetDescendants(f, n) ==
    /\ m = Idle
    /\ m' = EngineCall("getDescendants", f, n)
    /\ UNCHANGED world

\* The running traversal takes its next step.
StepEngine ==
    /\ m.kind = "engine"
    /\ m.pc # "done"
    /\ m' = EngineStep(graph, m)
    /\ UNCHANGED world

NextEngine ==
    \/ \E f \in Files, n \in Depths : CallGetAncestors(f, n)
    \/ \E f \in Files, n \in Depths : CallGetDescendants(f, n)
    \/ StepEngine
    \/ Return

SpecEngine == QueryInit /\ [][NextEngine]_vars

\* Largest maxLength findAllPaths is called with.
MaxLength == 4

Lengths == 0..MaxLength

\* findShortestPath(start, end, graph) is called.
CallFindShortestPath(s, e) ==
    /\ m = Idle
    /\ m' = ShortestCall(s, e)
    /\ UNCHANGED world

\* The running findShortestPath takes its next step.
StepShortest ==
    /\ m.kind = "shortest"
    /\ m.pc # "done"
    /\ m' = ShortestStep(graph, m)
    /\ UNCHANGED world

NextShortest ==
    \/ \E s, e \in Files : CallFindShortestPath(s, e)
    \/ StepShortest
    \/ Return

SpecShortest == QueryInit /\ [][NextShortest]_vars

\* findAllPaths(start, end, graph, maxLength) is called.
CallFindAllPaths(s, e, n) ==
    /\ m = Idle
    /\ m' = AllPathsCall(graph, s, e, n)
    /\ UNCHANGED world

\* The running findAllPaths takes its next step.
StepAllPaths ==
    /\ m.kind = "all"
    /\ m.pc # "done"
    /\ m' = AllPathsStep(graph, m)
    /\ UNCHANGED world

NextAllPaths ==
    \/ \E s, e \in Files, n \in Lengths : CallFindAllPaths(s, e, n)
    \/ StepAllPaths
    \/ Return

SpecAllPaths == QueryInit /\ [][NextAllPaths]_vars

\* Any of the queries is called, on any built graph.
NextCalls ==
    \/ NextCycle
    \/ NextEngine
    \/ NextShortest
    \/ NextAllPaths

SpecCalls == QueryInit /\ [][NextCalls]_vars

-----------------------------------------------------------------------------
(* The graph as a relation, for stating what the queries must return *)

Nodes(g) == {g[i].file : i \in 1..Len(g)}

\* u lists v among its parents.
Up(g, u) == Range(GetParents(g, u))

\* u lists v among its children.
Down(g, u) == Range(GetChildren(g, u))

\* Entries of all parents lists, and of all children lists.
ParentEntries(g) == SumLen([i \in 1..Len(g) |-> [refs |-> g[i].parents]], 1..Len(g))

ChildEntries(g) == SumLen([i \in 1..Len(g) |-> [refs |-> g[i].children]], 1..Len(g))

\* The files k parent links above some file of S.
RECURSIVE UpIter(_, _, _)
UpIter(g, S, k) ==
    IF k = 0 THEN S ELSE UpIter(g, UNION {Up(g, u) : u \in S}, k - 1)

\* The files whose shortest chain of parent links from d has exactly k links.
ExactlyAt(g, d, k) ==
    {v \in UpIter(g, {d}, k) : \A j \in 0..(k - 1) : v \notin UpIter(g, {d}, j)}

\* The files reached from d by zero or more parent links.
UpReach(g, d) == UNION {UpIter(g, {d}, k) : k \in 0..Cardinality(Files)}

\* v lies on a cycle of parent links.
OnCycle(g, v) == \E p \in Up(g, v) : v \in UpReach(g, p)

\* A parent or child edge joins u and v, read in either direction.
Joined(g, u, v) ==
    \/ v \in Up(g, u) \/ v \in Down(g, u)
    \/ u \in Up(g, v) \/ u \in Down(g, v)

\* The sequences of distinct files of at most n edges in which edge(u, v) holds
\* of every consecutive pair, from s to e.
SimplePaths(n, s, e, edge(_, _)) ==
    {p \in UNION {[1..k -> Files] : k \in 1..(n + 1)} :
        /\ p[1] = s
        /\ p[Len(p)] = e
        /\ NoDup(p)
        /\ \A i \in 1..(Len(p) - 1) : edge(p[i], p[i + 1])}

DetectCycleDone == m.kind = "cycle" /\ m.op = "detectCycle" /\ m.pc = "done"

HasCyclesDone == m.kind = "cycle" /\ m.op = "hasCycles" /\ m.pc = "done"

GetAncestorsDone == m.kind = "engine" /\ m.op = "getAncestors" /\ m.pc = "done"

ShortestDone == m.kind = "shortest" /\ m.pc = "done"

AllPathsDone == m.kind = "all" /\ m.pc = "done"

-----------------------------------------------------------------------------
(* C1: termination *)

NumFiles == Cardinality(Files)

RECURSIVE GeometricSum(_, _)
GeometricSum(base, n) == IF n = 0 THEN 0 ELSE 1 + base * GeometricSum(base, n - 1)

\* Steps a run may take, from the size of the graph alone (never from
\* maxDepth or maxLength): every file is entered, expanded or dequeued once,
\* every list entry is looked at once per file; findAllPaths makes one dfs
\* call per simple sequence of list entries.
StepBound(g, r) ==
    LET P == ParentEntries(g)
        C == ChildEntries(g)
    IN  CASE r.kind = "cycle" -> P + 2 * NumFiles + 1
          [] r.kind = "engine" -> P + 3 * NumFiles + 2
          [] r.kind = "shortest" -> P + C + 3 * NumFiles + 1
          [] r.kind = "all" -> GeometricSum(P + C, NumFiles) * (P + C + 2)
          [] OTHER -> 0

\* C1: every call of detectCycle, hasCycles, getAncestors, getDescendants,
\* findShortestPath and findAllPaths returns within a number of steps fixed by
\* the size of the graph (every step of a run that has not returned is
\* enabled, so a bounded run is a run that returns), on cyclic graphs too;
\* getAncestors and getDescendants fetch the relatives of each document at
\* most once per call; a findAllPaths dfs call never holds a document twice on
\* its path.
C1_Terminates ==
    m.kind # "idle" =>
        /\ m.steps <= StepBound(graph, m)
        /\ m.kind = "engine" => NoDup(m.expanded)
        /\ m.kind = "cycle" => NoDup(m.entered)
        /\ m.kind = "shortest" => NoDup(m.dequeued)
        /\ m.kind = "all" =>
              /\ \A i \in 1..Len(m.calls) : NoDup(m.calls[i])
              /\ Len(m.calls) <= GeometricSum(ParentEntries(graph) + ChildEntries(graph), NumFiles)

\* C1 witness: a traversal with a large depth budget has returned on a graph
\* with a cycle through its start document.
C1_Witness ==
    /\ m.kind = "engine"
    /\ m.pc = "done"
    /\ m.depth = MaxDepth
    /\ OnCycle(graph, m.file)
    /\ Len(m.expanded) >= 2

-----------------------------------------------------------------------------
(* C2: generations of getAncestors *)

\* C2: for maxDepth n >= 0, generation k of getAncestors(d, n) holds exactly
\* the documents whose shortest chain of parent links from d has k links; there
\* is one generation for each k in 1..n that has such documents; no generation
\* is empty, holds d, or holds a document twice, and no document is in two
\* generations.
C2_Generations ==
    (GetAncestorsDone /\ m.depth >= 0) =>
        LET res == m.ret
            filled == {k \in 1..m.depth : ExactlyAt(graph, m.file, k) # {}}
        IN  /\ Len(res) = Cardinality(filled)
            /\ \A k \in 1..Len(res) :
                  /\ Range(res[k]) = ExactlyAt(graph, m.file, k)
                  /\ NoDup(res[k])
                  /\ res[k] # <<>>
                  /\ m.file \notin Range(res[k])
            /\ \A j, k \in 1..Len(res) : j # k => Range(res[j]) \cap Range(res[k]) = {}

\* C2 witness: getAncestors returned two generations or more for a start
\* document that lies on a cycle and has a document reachable along two chains
\* of different length.
C2_Witness ==
    /\ GetAncestorsDone
    /\ Len(m.ret) >= 2
    /\ OnCycle(graph, m.file)
    /\ \E v \in Range(m.ret[1]) : v \in UpIter(graph, {m.file}, 2)

-----------------------------------------------------------------------------
(* C3, C4, C9: cycle detection *)

\* Some cycle of parent links can be reached from d along parent links.
CycleReachable(g, d) == \E v \in UpReach(g, d) : OnCycle(g, v)

RECURSIVE RunCycle(_, _)
RunCycle(g, r) == IF r.pc = "done" THEN r ELSE RunCycle(g, CycleStep(g, r))

\* What detectCycle(d) returns on graph g.
DetectCycleResult(g, d) == RunCycle(g, DetectCycleCall(g, d)).ret

\* C4: hasCycles() returns true exactly when detectCycle returns a CycleInfo
\* for some document of the graph; on a graph without cycles (the empty graph
\* too) it returns false.
C4_HasCycles ==
    HasCyclesDone =>
        /\ (m.ret = TRUE) <=> (\E d \in Nodes(graph) : DetectCycleResult(graph, d) # Null)
        /\ (\A v \in Files : ~OnCycle(graph, v)) => m.ret = FALSE

\* C4 witness: hasCycles returned true after a first start document from
\* which no cycle is reachable.
C4_Witness ==
    /\ HasCyclesDone
    /\ m.ret = TRUE
    /\ m.k >= 2
    /\ DetectCycleResult(graph, m.allFiles[1]) = Null

\* C9: a CycleInfo returned by detectCycle(start) has a cyclePath whose first
\* and last entries are the same, in which every entry but the last is
\* followed by one of its parents and no document but the closing one occurs
\* twice; length is the number of entries minus one and at least 1; startFile
\* is start.
C9_CycleInfo ==
    (DetectCycleDone /\ m.ret # Null) =>
        LET c == m.ret.cyclePath
        IN  /\ Len(c) >= 2
            /\ c[1] = c[Len(c)]
            /\ \A i \in 1..(Len(c) - 1) : c[i + 1] \in Up(graph, c[i])
            /\ NoDup(SubSeq(c, 1, Len(c) - 1))
            /\ m.ret.length = Len(c) - 1
            /\ m.ret.length >= 1
            /\ m.ret.startFile = m.start

\* C9 witness: a returned cycle of two documents or more that does not hold
\* the start document.
C9_Witness ==
    /\ DetectCycleDone
    /\ m.ret # Null
    /\ m.ret.length >= 2
    /\ m.start \notin Range(m.ret.cyclePath)

-----------------------------------------------------------------------------
(* C5, C10: build() *)

\* Occurrences of x in s.
Count(s, x) == Cardinality({i \in 1..Len(s) : s[i] = x})

\* C5: in every graph build() leaves, for all nodes C and P, C occurs in
\* getChildren(P) exactly once if P is among getParents(C), and not at all
\* otherwise.
C5_ChildrenInverse ==
    \A c, p \in Nodes(graph) :
        Count(GetChildren(graph, p), c) = IF p \in Up(graph, c) THEN 1 ELSE 0

\* What a newly constructed RelationGraph holds after one build() of the vault.
FreshGraph == BuildFrom(<<>>, vault, fm)

\* C10: whatever node map build() finds (left by earlier builds of a vault
\* since changed by creations, modifications, renames and deletions), it leaves
\* the vault as it is and leaves the node map a newly constructed graph gets
\* from one build() of that vault, with a cycle detector installed: nodes,
\* their order, every parents and children list.  The queries, the cycle
\* detector, the engine and the path finder read nothing but this node map.
\* A build() straight after a build() changes nothing.
C10_RebuildIsFresh ==
    [][Build => /\ vault' = vault
                /\ fm' = fm
                /\ graph' = FreshGraph
                /\ detector'
                /\ (detector /\ last # "change" => graph' = graph)]_vars

\* C10 witness: a build() has replaced a node map of an earlier build that
\* held a node the new one lacks, and left a graph with an edge.
C10_Witness ==
    /\ last = "rebuild"
    /\ ParentEntries(graph) > 0
    /\ ChildEntries(graph) > 0
    /\ Len(vault) < Cardinality(LifeDocs)

-----------------------------------------------------------------------------
(* C6, C7, C8: paths *)

\* The next document of a path is a parent or a child of the one before.
Linked(g, u, v) == v \in Up(g, u) \/ v \in Down(g, u)

\* C6: for start # end, findShortestPath returns null exactly when no sequence
\* of parent or child edges, each read in either direction, connects start and
\* end; otherwise a path from start to end without a repeated document, each
\* consecutive pair joined by an edge, length its number of edges, and no
\* connecting path has fewer edges.
C6_ShortestPath ==
    (ShortestDone /\ m.start # m.end) =>
        LET connecting == SimplePaths(NumFiles - 1, m.start, m.end,
                                      LAMBDA u, v : Joined(graph, u, v))
        IN  /\ (m.ret = Null) <=> (connecting = {})
            /\ m.ret # Null =>
                  /\ m.ret.path \in connecting
                  /\ m.ret.length = Len(m.ret.path) - 1
                  /\ \A p \in connecting : Len(p) >= Len(m.ret.path)

\* The paths of a findAllPaths result.
PathsOf(ret) == {ret[i].path : i \in 1..Len(ret)}

\* C7: findAllPaths(start, end, maxLength) returns every simple path between
\* start and end along parent and child edges, each read in either direction,
\* of at most maxLength edges; it returns [] only when there is none.
C7_AllPathsComplete ==
    AllPathsDone =>
        LET wanted == SimplePaths(m.maxLength, m.start, m.end,
                                  LAMBDA u, v : Joined(graph, u, v))
        IN  /\ wanted \subseteq PathsOf(m.ret)
            /\ m.ret = <<>> => wanted = {}

\* C8: every path findAllPaths(start, end, maxLength) returns begins with
\* start, ends with end, repeats no document, goes from each document to one
\* of its parents or children, has length equal to its number of edges, and
\* that length is at most maxLength.
C8_AllPathsSound ==
    AllPathsDone =>
        \A i \in 1..Len(m.ret) :
            LET p == m.ret[i].path
            IN  /\ Len(p) >= 1
                /\ p[1] = m.start
                /\ p[Len(p)] = m.end
                /\ NoDup(p)
                /\ \A j \in 1..(Len(p) - 1) : Linked(graph, p[j], p[j + 1])
                /\ m.ret[i].length = Len(p) - 1
                /\ m.ret[i].length <= m.maxLength
                /\ m.ret[i].start = m.start
                /\ m.ret[i].end = m.end

\* C8 witness: findAllPaths returned a path of one edge or more as long as
\* the search lets a path be, while a longer connecting path was cut off.
C8_Witness ==
    /\ AllPathsDone
    /\ \E i \in 1..Len(m.ret) : /\ m.ret[i].length >= 1
                                 /\ ~TooLong(m.ret[i].path, m.maxLength)
                                 /\ TooLong(m.ret[i].path \o <<m.end>>, m.maxLength)
    /\ \E p \in SimplePaths(NumFiles - 1, m.start, m.end,
                            LAMBDA u, v : Joined(graph, u, v)) :
           TooLong(p, m.maxLength)

-----------------------------------------------------------------------------
(* C11: the parents build() records *)

\* build() has run on the vault as it is now.
Built == last \in {"build", "again", "rebuild"}

\* The entry names a file the resolver finds.
Resolves(r) == GetFirstLinkpathDest(vault, r, NoFile) # NoFile

\* C11: after build(), getParents(d) of every note d is its declared entries
\* (none for an absent field, one for a scalar, the list's entries for a list)
\* with each entry that resolves replaced by the file it resolves to and each
\* entry that does not resolve left out, in declared order; the other entries
\* of d and of every other note stay.
C11_ParentsAsDeclared ==
    Built =>
        \A i \in 1..Len(vault) :
            LET d == vault[i]
                kept == SelectSeq(fm[d].refs, Resolves)
            IN  /\ GetParents(graph, d) =
                       [j \in 1..Len(kept) |-> GetFirstLinkpathDest(vault, kept[j], NoFile)]
                /\ fm[d].kind = "absent" => GetParents(graph, d) = <<>>
                /\ fm[d].kind = "scalar" => Len(GetParents(graph, d)) <= 1

\* C11 witness: a built note declares a list whose first entry does not
\* resolve and whose second does, and has the second as its only parent.
C11_Witness ==
    /\ Built
    /\ \E i \in 1..Len(vault) :
           LET d == vault[i]
           IN  /\ fm[d].kind = "list"
               /\ Len(fm[d].refs) = 2
               /\ ~Resolves(fm[d].refs[1])
               /\ Resolves(fm[d].refs[2])
               /\ GetParents(graph, d) = <<fm[d].refs[2]>>

-----------------------------------------------------------------------------
(* C12: documents that are no node of the graph *)

EngineDone == m.kind = "engine" /\ m.pc = "done"

\* C12: for a file that is no node of the built graph, getParents and
\* getChildren are empty sequences, getAncestors and getDescendants return [],
\* detectCycle returns null, and between it and any other file
\* findShortestPath returns null and findAllPaths returns [].
C12_UnknownDocument ==
    /\ \A f \in Files \ Nodes(graph) :
          GetParents(graph, f) = <<>> /\ GetChildren(graph, f) = <<>>
    /\ (EngineDone /\ m.file \notin Nodes(graph)) => m.ret = <<>>
    /\ (DetectCycleDone /\ m.start \notin Nodes(graph)) => m.ret = Null
    /\ (ShortestDone /\ m.start # m.end
          /\ (m.start \notin Nodes(graph) \/ m.end \notin Nodes(graph))) => m.ret = Null
    /\ (AllPathsDone /\ m.start # m.end
          /\ (m.start \notin Nodes(graph) \/ m.end \notin Nodes(graph))) => m.ret = <<>>

-----------------------------------------------------------------------------
(* C13: the operations of a RelationGraph, from its construction on *)

\* A call that returns at once, with its result.
Value(op, ret) == [kind |-> "value", op |-> op, pc |-> "done", ret |-> ret]

\* new RelationGraph(app, parentField) over any vault: an empty map, no cycle
\* detector yet.
ConstructedInit ==
    /\ vault \in QueryVaults
    /\ fm \in Caches(Range(vault), MaxEdges)
    /\ graph = <<>>
    /\ detector = FALSE
    /\ last = "new"
    /\ earlier = Nothing
    /\ m = Idle

\* graph.getParents(file) is called.
CallGetParents(f) ==
    /\ m = Idle
    /\ m' = Value("getParents", GetParents(graph, f))
    /\ UNCHANGED world

\* Mutant: getChildren hands the list over and leaves the node without it.
CallGetChildrenDraining(f) ==
    /\ m = Idle
    /\ m' = Value("getChildren", GetChildren(graph, f))
    /\ graph' = [i \in DOMAIN graph |->
                    IF graph[i].file = f THEN [graph[i] EXCEPT !.children = <<>>]
                    ELSE graph[i]]
    /\ UNCHANGED <<vault, fm, detector, last, earlier>>

\* graph.getChildren(file) is called.
CallGetChildren(f) ==
    /\ m = Idle
    /\ m' = Value("getChildren", GetChildren(graph, f))
    /\ UNCHANGED world

\* graph.getAllFiles() is called.
CallGetAllFiles ==
    /\ m = Idle
    /\ m' = Value("getAllFiles", GetAllFiles(graph))
    /\ UNCHANGED world

\* graph.getCycleInfo(file) is called: cycleDetector.getCycleInfo is
\* detectCycle under another name.
CallGetCycleInfo(f) ==
    /\ m = Idle
    /\ m' = IF detector THEN [DetectCycleCall(graph, f) EXCEPT !.op = "getCycleInfo"]
            ELSE Threw
    /\ UNCHANGED world

\* build() is called between two operations.
CallBuild == m = Idle /\ Build

NextOperations ==
    \/ \E f \in Files : CallGetParents(f)
    \/ \E f \in Files : CallGetChildren(f)
    \/ CallGetAllFiles
    \/ \E f \in Files : CallDetectCycle(f)
    \/ \E f \in Files : CallGetCycleInfo(f)
    \/ CallHasCycles
    \/ StepCycle
    \/ Return
    \/ CallBuild

SpecOperations == ConstructedInit /\ [][NextOperations]_vars

\* C13: in every state of a RelationGraph, from its construction on, build()
\* run or not, getParents, getChildren, getAllFiles, detectCycle, getCycleInfo
\* and hasCycles return a result: none of them throws.
C13_OperationsNeverFail == m.kind # "threw"

-----------------------------------------------------------------------------
(* C14: the depth bound of getAncestors *)

\* A traversal run to its return.
RECURSIVE RunEngine(_, _)
RunEngine(g, r) == IF r.pc = "done" THEN r ELSE RunEngine(g, EngineStep(g, r))

\* What engine.getAncestors(file, maxDepth) returns on graph g.
GetAncestorsOf(g, file, maxDepth) ==
    RunEngine(g, EngineCall("getAncestors", file, maxDepth)).ret

\* The first n entries of s, all of s when it has fewer, none for n <= 0.
Prefix(s, n) == SubSeq(s, 1, IF n < 0 THEN 0 ELSE IF n < Len(s) THEN n ELSE Len(s))

\* C14: getAncestors(d, N) has N generations at most, none for N <= 0; it is
\* the first N generations of getAncestors(d, M) for every M >= N; and when N
\* is the number of generations d has, or more, it is all of them.
C14_DepthPrefix ==
    GetAncestorsDone =>
        LET all == GetAncestorsOf(graph, m.file, NumFiles)
        IN  /\ Len(m.ret) <= (IF m.depth < 0 THEN 0 ELSE m.depth)
            /\ \A M \in Depths :
                  M >= m.depth => m.ret = Prefix(GetAncestorsOf(graph, m.file, M), m.depth)
            /\ m.depth >= Len(all) => m.ret = all

\* C14 witness: getAncestors(d, 1) returned one generation of a document that
\* has grandparents.
C14_Witness ==
    /\ GetAncestorsDone
    /\ m.depth = 1
    /\ Len(m.ret) = 1
    /\ Len(GetAncestorsOf(graph, m.file, MaxDepth)) >= 2

-----------------------------------------------------------------------------
(* C15: order within a generation.  The diamond has four edges, so the     *)
(* traversals run here on vaults that declare up to MaxTreeEdges           *)
(* references.                                                             *)

\* References the vault of a traversal run declares in total, at most.
MaxTreeEdges == 4

TreeInit ==
    /\ vault \in QueryVaults
    /\ fm \in Caches(Range(vault), MaxTreeEdges)
    /\ graph = BuildFrom(<<>>, vault, fm)
    /\ detector = TRUE
    /\ last = "build"
    /\ earlier = Nothing
    /\ m = Idle

SpecTree == TreeInit /\ [][NextEngine]_vars

\* The relatives of the files of a generation, one list after the other.
RECURSIVE Met(_, _, _)
Met(g, op, generation) ==
    IF generation = <<>> THEN <<>>
    ELSE Relatives(g, op, Head(generation)) \o Met(g, op, Tail(generation))

\* s without the files of seen, every other file at its first occurrence.
RECURSIVE FirstMet(_, _)
FirstMet(s, seen) ==
    IF s = <<>> THEN <<>>
    ELSE IF Head(s) \in seen THEN FirstMet(Tail(s), seen)
    ELSE <<Head(s)>> \o FirstMet(Tail(s), seen \cup {Head(s)})

\* The files of the first k generations, and the start.
SeenBefore(r, k) == {r.file} \cup UNION {Range(r.ret[j]) : j \in 1..k}

\* C15: every generation getAncestors / getDescendants returns lists its
\* files in the order their edges are first met when the generation before
\* (the start, for the first) is scanned left to right and each file's
\* parents (children) in stored order; for the diamond (A has parents B, C;
\* B and C have the one parent D) getAncestors(A, 2) is [[B, C], [D]].
C15_GenerationOrder ==
    EngineDone =>
        /\ \A k \in 1..Len(m.ret) :
              m.ret[k] = FirstMet(Met(graph, m.op, IF k = 1 THEN <<m.file>> ELSE m.ret[k - 1]),
                                  SeenBefore(m, k - 1))
        /\ \A B, C, D \in Files :
              (/\ m.op = "getAncestors"
               /\ m.depth = 2
               /\ Cardinality({m.file, B, C, D}) = 4
               /\ GetParents(graph, m.file) = <<B, C>>
               /\ GetParents(graph, B) = <<D>>
               /\ GetParents(graph, C) = <<D>>) => m.ret = <<<<B, C>>, <<D>>>>

\* C15 witness: getAncestors(A, 2) has returned on the diamond.
C15_Witness ==
    /\ GetAncestorsDone
    /\ m.depth = 2
    /\ Len(m.ret) = 2
    /\ Len(m.ret[1]) = 2
    /\ GetParents(graph, m.ret[1][1]) = GetParents(graph, m.ret[1][2])
    /\ Len(GetParents(graph, m.ret[1][1])) = 1
    /\ m.ret[2] = GetParents(graph, m.ret[1][1])
    /\ m.file \notin Range(m.ret[2])

-----------------------------------------------------------------------------
(* C17: getDescendants mirrors getAncestors *)

GetDescendantsDone == m.kind = "engine" /\ m.op = "getDescendants" /\ m.pc = "done"

\* The graph with every edge reversed: each node's parents and children
\* lists exchanged.
Reverse(g) ==
    [i \in 1..Len(g) |->
        [file |-> g[i].file, parents |-> g[i].children, children |-> g[i].parents]]

\* C17: getDescendants(d, n) on the graph is getAncestors(d, n) on the graph
\* with every node's parents and children lists exchanged.
C17_DescendantsMirror ==
    GetDescendantsDone => m.ret = GetAncestorsOf(Reverse(graph), m.file, m.depth)

\* C17 witness: getDescendants returned two generations or more of a document
\* whose ancestors differ from them.
C17_Witness ==
    /\ GetDescendantsDone
    /\ Len(m.ret) >= 2
    /\ m.ret # GetAncestorsOf(graph, m.file, m.depth)

-----------------------------------------------------------------------------
(* C16: a traversal called again.  The caller keeps the result of one      *)
(* traversal, runs other queries, and calls the same traversal again.      *)

\* A traversal has returned and its caller keeps what it returned.
Keep ==
    /\ EngineDone
    /\ m.depth = MaxDepth
    /\ earlier = Nothing
    /\ earlier' = [kind |-> "kept", op |-> m.op, file |-> m.file, depth |-> m.depth,
                   ret |-> m.ret, between |-> FALSE]
    /\ m' = Idle
    /\ UNCHANGED <<vault, fm, graph, detector, last>>

\* The running query is the kept traversal called again.
Again ==
    /\ earlier # Nothing
    /\ m.kind = "engine"
    /\ m.op = earlier.op
    /\ m.file = earlier.file
    /\ m.depth = earlier.depth

\* A query has returned; when a result is kept and this was another query,
\* note that one ran in between.
ReturnBetween ==
    /\ m.kind # "idle"
    /\ m.pc = "done"
    /\ m' = Idle
    /\ earlier' = IF earlier # Nothing /\ ~Again THEN [earlier EXCEPT !.between = TRUE]
                  ELSE earlier
    /\ UNCHANGED <<vault, fm, graph, detector, last>>

NextRepeat ==
    \/ \E f \in Files : CallDetectCycle(f)
    \/ CallHasCycles
    \/ StepCycle
    \/ \E f \in Files : CallGetAncestors(f, MaxDepth)
    \/ \E f \in Files : CallGetDescendants(f, MaxDepth)
    \/ StepEngine
    \/ \E s, e \in Files : CallFindShortestPath(s, e)
    \/ StepShortest
    \/ \E s, e \in Files : CallFindAllPaths(s, e, MaxLength)
    \/ StepAllPaths
    \/ Keep
    \/ ReturnBetween

SpecRepeat == QueryInit /\ [][NextRepeat]_vars

-----------------------------------------------------------------------------
(* C18: a document that is its own parent *)

\* The graph without the entries of d in d's own parents list.
WithoutSelfParent(g, d) ==
    [i \in 1..Len(g) |->
        IF g[i].file = d
        THEN [g[i] EXCEPT !.parents = SelectSeq(@, LAMBDA p : p # d)]
        ELSE g[i]]

\* C18 as stated: for a document whose one parent is itself, getAncestors
\* with a bound of one or more returns exactly one generation, holding that
\* document.
C18_SelfParentGeneration ==
    (GetAncestorsDone /\ m.depth >= 1 /\ GetParents(graph, m.file) = <<m.file>>)
        => m.ret = <<<<m.file>>>>

\* C18 amended: for a document that is its own parent, getAncestors lists
\* the document in no generation; the result is what it would be without the
\* self-referencing entries, so [] when the document has no other parent.
C18_SelfParentAbsorbed ==
    (GetAncestorsDone /\ m.file \in Up(graph, m.file)) =>
        /\ \A k \in 1..Len(m.ret) : m.file \notin Range(m.ret[k])
        /\ m.ret = GetAncestorsOf(WithoutSelfParent(graph, m.file), m.file, m.depth)
        /\ Up(graph, m.file) = {m.file} => m.ret = <<>>

\* C18 witness: getAncestors, bound one or more, has returned [] for a
\* document whose one parent is itself.
C18_Witness ==
    /\ GetAncestorsDone
    /\ m.depth >= 1
    /\ GetParents(graph, m.file) = <<m.file>>
    /\ m.ret = <<>>

-----------------------------------------------------------------------------
(* C19: the file detectCycle is called with *)

\* C19: detectCycle(file) returns a CycleInfo exactly when file itself is on
\* a cycle of parent edges, and then file is among the files of cyclePath.
C19_FileOnCycle ==
    DetectCycleDone =>
        /\ (m.ret # Null) <=> OnCycle(graph, m.start)
        /\ m.ret # Null => m.start \in Range(m.ret.cyclePath)

-----------------------------------------------------------------------------
(* C20: references of a note to itself *)

-----------------------------------------------------------------------------
(* C21: the direction of a path *)

\* Every step of the path goes from a file to one of its parents.
AllUp(g, p) == \A j \in 1..(Len(p) - 1) : p[j + 1] \in Up(g, p[j])

\* Every step of the path goes from a file to one of its children.
AllDown(g, p) == \A j \in 1..(Len(p) - 1) : p[j + 1] \in Down(g, p[j])

\* C21: a path findAllPaths returns has direction "up" if every step goes to
\* a parent, "down" if every step goes to a child, "mixed" otherwise (a path
\* all of whose steps go to a file that is both is left open here).
C21_Direction ==
    AllPathsDone =>
        \A i \in 1..Len(m.ret) :
            LET p == m.ret[i].path
                up == AllUp(graph, p)
                down == AllDown(graph, p)
            IN  /\ (up /\ ~down) => m.ret[i].direction = "up"
                /\ (down /\ ~up) => m.ret[i].direction = "down"
                /\ (~up /\ ~down) => m.ret[i].direction = "mixed"

-----------------------------------------------------------------------------
(* C22: the context of a resolution *)

\* The calls of getFirstLinkpathDest one build() makes: for every note and
\* every entry of its parent field, the entry and the sourcePath passed.
ResolverCalls(files, cache) ==
    UNION {{[file |-> files[i], ref |-> cache[files[i]].refs[j],
             sourcePath |-> MetaPath(cache[files[i]])] :
               j \in 1..Len(cache[files[i]].refs)} : i \in 1..Len(files)}

\* C22: every reference a note declares is resolved by build() with that
\* note's own path as the context passed to the resolver.
C22_ResolverContext ==
    Built => \A c \in ResolverCalls(vault, fm) : c.sourcePath = c.file


-----------------------------------------------------------------------------
(* FrontmatterEditor *)

\* Array.isArray(fieldValue) ? fieldValue : [fieldValue]
FieldArray(fieldValue) == fieldValue.refs

\* Mutant: no value is ever found in the field.
IncludesNever(fieldArray, value) == FALSE

\* fieldArray.includes(value)
Includes(fieldArray, value) == value \in Range(fieldArray)

\* fieldArray.filter(v => v !== value)
Filter(fieldArray, value) == SelectSeq(fieldArray, LAMBDA v : v # value)

\* The callback throws new Error(message).
Thrown(message) == [threw |-> TRUE, error |-> message]

\* The callback returns, the field left as fieldValue.
Updated(fieldValue) == [threw |-> FALSE, frontmatter |-> fieldValue]

\* What options.validator does with the value: there is none, it returns
\* true, it returns false, or it throws.
Validators == {"none", "accepts", "rejects", "throws"}

FrontmatterEditOptions ==
    [createIfMissing : BOOLEAN, removeIfEmpty : BOOLEAN, validator : Validators]

\* The callback addToField hands to processFrontMatter.
AddCallback(fieldValue, value, options) ==
    IF fieldValue.kind = "absent" /\ ~options.createIfMissing
    THEN Thrown("Field does not exist")
    ELSE IF options.validator = "throws" THEN Thrown("validator failed")
    ELSE IF options.validator = "rejects" THEN Thrown("Invalid value")
    ELSE IF Includes(FieldArray(fieldValue), value) THEN Thrown("Value already exists")
    ELSE Updated(List(Append(FieldArray(fieldValue), value)))

\* The callback removeFromField hands to processFrontMatter.
RemoveCallback(fieldValue, value, options) ==
    IF fieldValue.kind = "absent" THEN Thrown("Field does not exist")
    ELSE IF ~Includes(FieldArray(fieldValue), value) THEN Thrown("Value not found")
    ELSE LET filtered == Filter(FieldArray(fieldValue), value)
         IN  IF Len(filtered) = 0 /\ options.removeIfEmpty THEN Updated(Absent)
             ELSE IF Len(filtered) = 1 THEN Updated(Scalar(filtered[1]))
             ELSE Updated(List(filtered))

\* How the file behaves under the update: it is read and written, it cannot
\* be read, or it cannot be written.
FileOutcomes == {"ok", "read", "write"}

\* fileManager.processFrontMatter(file, fn): the frontmatter is read, fn is
\* run on it, and the outcome is written back all at once or not at all; done
\* is what fn does with the frontmatter read.
ProcessFrontMatter(cache, file, done, io) ==
    IF io = "read" THEN [rejected |-> TRUE, error |-> "File is locked", cache |-> cache]
    ELSE IF done.threw THEN [rejected |-> TRUE, error |-> done.error, cache |-> cache]
    ELSE IF io = "write"
    THEN [rejected |-> TRUE, error |-> "File is locked", cache |-> cache]
    ELSE [rejected |-> FALSE, error |-> "",
          cache |-> [cache EXCEPT ![file] = done.frontmatter]]

\* FrontmatterEditResult.error of a successful edit
NoError == "undefined"

\* The FrontmatterEditResult the try block or the catch block returns, with
\* the inputs of the call.
EditResult(operation, file, value, options, io, before, p) ==
    [kind |-> "edit", pc |-> "done", operation |-> operation,
     success |-> ~p.rejected, error |-> IF p.rejected THEN p.error ELSE NoError,
     file |-> file, value |-> value, options |-> options, io |-> io,
     before |-> before]

\* editor.addToField(file, fieldName, value, options)
AddToField(file, value, options, io) ==
    /\ m = Idle
    /\ Declared(fm) < MaxEdges
    /\ LET p == ProcessFrontMatter(fm, file, AddCallback(fm[file], value, options), io)
       IN  /\ fm' = p.cache
           /\ m' = EditResult("add", file, value, options, io, fm, p)
    /\ UNCHANGED <<vault, graph, detector, last, earlier>>

\* editor.removeFromField(file, fieldName, value, options)
RemoveFromField(file, value, options, io) ==
    /\ m = Idle
    /\ LET p == ProcessFrontMatter(fm, file, RemoveCallback(fm[file], value, options), io)
       IN  /\ fm' = p.cache
           /\ m' = EditResult("remove", file, value, options, io, fm, p)
    /\ UNCHANGED <<vault, graph, detector, last, earlier>>

\* The notes the editor is tried on.
EditedDocs == <<"a", "b">>

\* A vault of notes whose parent fields are lists, no graph built of it yet;
\* no edit is under way.
EditorInit ==
    /\ vault \in {SubSeq(EditedDocs, 1, n) : n \in 1..Len(EditedDocs)}
    /\ fm \in Caches(Range(vault), MaxDeclared)
    /\ graph = <<>>
    /\ detector = FALSE
    /\ last = "new"
    /\ earlier = Nothing
    /\ m = Idle

NextEditor ==
    \/ \E file \in Range(vault), value \in Refs, options \in FrontmatterEditOptions,
          io \in FileOutcomes : AddToField(file, value, options, io)
    \/ \E file \in Range(vault), value \in Refs, options \in FrontmatterEditOptions,
          io \in FileOutcomes : RemoveFromField(file, value, options, io)
    \/ Return

SpecEditor == EditorInit /\ [][NextEditor]_vars

\* An edit has returned.
Edited(operation) == m.kind = "edit" /\ m.operation = operation

\* The field of the edited file when the edit was called.
FieldBefore == m.before[m.file]

\* The edit failed as it must: no success, an error message, the frontmatter
\* as it was.
Refused == ~m.success /\ m.error \notin {NoError, ""} /\ fm = m.before

\* C23 as stated: addToField and removeFromField never throw, and each of them
\* returns success=false with an error message and leaves the frontmatter as
\* it was when the field is missing (for add, unless createIfMissing is set),
\* the validator rejects the value, the value is already present (add) or not
\* present (remove), or the update fails.
C23_EditRefusedAsStated ==
    /\ m.kind # "threw"
    /\ Edited("add") /\ (\/ FieldBefore.kind = "absent" /\ ~m.options.createIfMissing
                         \/ m.options.validator = "rejects"
                         \/ m.value \in Range(FieldBefore.refs)
                         \/ m.io # "ok") => Refused
    /\ Edited("remove") /\ (\/ FieldBefore.kind = "absent"
                            \/ m.options.validator = "rejects"
                            \/ m.value \notin Range(FieldBefore.refs)
                            \/ m.io # "ok") => Refused

\* C23: addToField and removeFromField never throw; addToField returns
\* success=false with an error message and leaves the frontmatter as it was
\* when the field is missing and createIfMissing is not set, the validator
\* rejects the value, the value is already present or the update fails;
\* removeFromField, which never consults the validator, does so when the field
\* is missing, the value is not present or the update fails.
C23_EditRefused ==
    /\ m.kind # "threw"
    /\ Edited("add") /\ (\/ FieldBefore.kind = "absent" /\ ~m.options.createIfMissing
                         \/ m.options.validator = "rejects"
                         \/ m.value \in Range(FieldBefore.refs)
                         \/ m.io # "ok") => Refused
    /\ Edited("remove") /\ (\/ FieldBefore.kind = "absent"
                            \/ m.value \notin Range(FieldBefore.refs)
                            \/ m.io # "ok") => Refused

\* addToField is refused a value that is already the single value of a field
\* removeFromField had shortened, the file being readable and writable.
C23_Witness ==
    /\ Edited("add")
    /\ FieldBefore.kind = "scalar"
    /\ m.value \in Range(FieldBefore.refs)
    /\ m.io = "ok"
    /\ Refused


-----------------------------------------------------------------------------
(* C24: the colours and the path stack of a detection run *)

\* The documents a run holds in the state GRAY.
InProgress(r) == {f \in Files : r.states[f] = GRAY}

\* The place of a state in the order WHITE, GRAY, BLACK.
Rank(state) == IF state = WHITE THEN 0 ELSE IF state = GRAY THEN 1 ELSE 2

\* The documents in progress are those of the path stack, which holds none
\* twice and goes from each entry to one of its parents.
PathStackOK(g, r) ==
    /\ InProgress(r) = Range(r.path)
    /\ NoDup(r.path)
    /\ \A i \in 1..(Len(r.path) - 1) : r.path[i + 1] \in Up(g, r.path[i])

\* From one step of a run to the next, no state moves backwards and none
\* skips GRAY.
ColoursAdvance(r, s) ==
    \A f \in Files : Rank(s.states[f]) \in {Rank(r.states[f]), Rank(r.states[f]) + 1}

\* C24: during a detection run (one detectCycle call, or one hasCycles call
\* over all its start documents) a document's state only moves WHITE to GRAY
\* to BLACK, never backwards, and at every step the GRAY documents are exactly
\* the documents of the path stack, which holds no document twice and in which
\* each entry is a parent of the entry before it.
C24_ColoursAndPath ==
    /\ [](m.kind = "cycle" => PathStackOK(graph, m))
    /\ [][m.kind = "cycle" /\ m'.kind = "cycle" => ColoursAdvance(m, m')]_vars

\* A hasCycles run at its second start document or later, two documents on
\* the path stack and a third one finished.
C24_Witness ==
    /\ m.kind = "cycle"
    /\ m.op = "hasCycles"
    /\ m.k > 1
    /\ Len(m.path) = 2
    /\ \E f \in Files : m.states[f] = BLACK


-----------------------------------------------------------------------------
(* C25: the queries leave the graph alone *)

\* Every query of the graph, the cycle detector, the relationship engine and
\* the path finder, on a graph that has been built.
NextQueries ==
    \/ \E f \in Files : CallGetParents(f)
    \/ \E f \in Files : CallGetChildren(f)
    \/ CallGetAllFiles
    \/ NextCalls

SpecQueries == QueryInit /\ [][NextQueries]_vars

-----------------------------------------------------------------------------
(* C26: build(), statement by statement.  build() is a synchronous method: *)
(* it runs from its first statement to its last before any other call of   *)
(* the event loop starts, so a run of build() is the running call m, like  *)
(* a query that has not returned.                                          *)

\* build() is called: files = getMarkdownFiles(), nothing done yet.
BuildRun(files, label) ==
    [kind |-> "build", pc |-> "clear", files |-> files, i |-> 1, n |-> 1,
     label |-> label]

\* What the build() that was called last is to leave.
BuildRecord(made) == [kind |-> "built", made |-> made]

\* The next statement of a build() run on the map g: the map and the run after
\* it.  The cycle detector is installed by the last statement.
BuildStatement(g, cache, r) ==
    IF r.pc = "clear" THEN [graph |-> MapClear(g), run |-> [r EXCEPT !.pc = "nodes"]]
    ELSE IF r.pc = "nodes"
    THEN IF r.i > Len(r.files) THEN [graph |-> g, run |-> [r EXCEPT !.pc = "children"]]
         ELSE [graph |-> MapSet(g, [file |-> r.files[r.i],
                                    parents |-> ExtractParentLinks(r.files, cache[r.files[r.i]]),
                                    children |-> <<>>]),
               run |-> [r EXCEPT !.i = @ + 1]]
    ELSE IF r.pc = "children"
    THEN IF r.n > Len(g) THEN [graph |-> g, run |-> [r EXCEPT !.pc = "install"]]
         ELSE [graph |-> PushToParents(g, r.n, 1), run |-> [r EXCEPT !.n = @ + 1]]
    ELSE [graph |-> g, run |-> [r EXCEPT !.pc = "done"]]

\* Mutant: build() gives the control back wherever it stands.
BuildFinishedAnywhere(r) == TRUE

\* build() has run its last statement.
BuildFinished(r) == r.pc = "done"

\* build() is called while nothing else runs.
StartBuild ==
    /\ m = Idle
    /\ m' = BuildRun(vault, IF detector /\ last # "change" THEN "again"
                            ELSE IF graph = <<>> THEN "build"
                            ELSE "rebuild")
    /\ earlier' = BuildRecord(BuildFrom(graph, vault, fm))
    /\ UNCHANGED <<vault, fm, graph, detector, last>>

\* build() runs its next statement.
BuildStep ==
    /\ m.kind = "build"
    /\ m.pc # "done"
    /\ LET s == BuildStatement(graph, fm, m)
       IN  /\ graph' = s.graph
           /\ m' = s.run
           /\ detector' = (detector \/ m.pc = "install")
           /\ last' = IF m.pc = "install" THEN m.label ELSE last
    /\ UNCHANGED <<vault, fm, earlier>>

\* build() returns to its caller.
BuildReturn ==
    /\ m.kind = "build"
    /\ BuildFinished(m)
    /\ m' = Idle
    /\ UNCHANGED world

\* A query returns to its caller.
QueryReturn == m.kind # "build" /\ Return

\* The vault changes, builds and queries of the lifecycle, one call of the
\* event loop after the other.
NextBuilding ==
    \/ \E d \in LifeDocs, v \in LifeValues : m = Idle /\ CreateDoc(d, v)
    \/ \E d \in LifeDocs, v \in LifeValues : m = Idle /\ ModifyDoc(d, v)
    \/ \E d \in LifeDocs : m = Idle /\ DeleteDoc(d)
    \/ StartBuild
    \/ BuildStep
    \/ BuildReturn
    \/ \E f \in LifeDocs : CallGetParents(f)
    \/ \E f \in LifeDocs : CallGetChildren(f)
    \/ \E f \in LifeDocs : CallDetectCycle(f)
    \/ CallHasCycles
    \/ StepCycle
    \/ \E f \in LifeDocs : CallGetAncestors(f, MaxDepth)
    \/ \E f \in LifeDocs : CallGetDescendants(f, MaxDepth)
    \/ StepEngine
    \/ \E s, e \in LifeDocs : CallFindShortestPath(s, e)
    \/ StepShortest
    \/ \E s, e \in LifeDocs : CallFindAllPaths(s, e, MaxLength)
    \/ StepAllPaths
    \/ QueryReturn

SpecBuilding == Init /\ [][NextBuilding]_vars

\* A query is running or has just returned its result.
Reading == m.kind \notin {"idle", "build"}

\* C26: no query observes a partially built graph: whenever a query runs, the
\* node map is the complete map the last build() was to leave (the empty map
\* of the constructor if build() was never called), children lists filled,
\* and the cycle detector of that build() is installed; build() never gives
\* the control away between its first statement and its last.
C26_BuildIsAtomic ==
    /\ Reading =>
          IF earlier = Nothing THEN graph = <<>> /\ ~detector
          ELSE graph = earlier.made /\ detector
    /\ m.kind = "idle" /\ earlier # Nothing => graph = earlier.made /\ detector

\* hasCycles runs on the map a build() has left, which has a children list
\* that is not empty, the vault having changed since.
C26_Witness ==
    /\ m.kind = "cycle"
    /\ m.op = "hasCycles"
    /\ earlier # Nothing
    /\ graph = earlier.made
    /\ \E i \in 1..Len(graph) : graph[i].children # <<>>
    /\ last = "change"


-----------------------------------------------------------------------------
(* C27: hasCycles enters a document once *)

\* C27: within one hasCycles() call the depth-first search enters every
\* document at most once, however many start documents are tried: a document
\* finished while scanning from one start is not explored again from a later
\* one.
C27_EnteredOnce == m.kind = "cycle" /\ m.op = "hasCycles" => NoDup(m.entered)

\* hasCycles comes to a start document that the search from an earlier start
\* has finished.
C27_Witness ==
    /\ m.kind = "cycle"
    /\ m.op = "hasCycles"
    /\ m.pc = "scan"
    /\ m.k > 1
    /\ m.k <= Len(m.allFiles)
    /\ m.states[m.allFiles[m.k]] = BLACK
    /\ Len(m.entered) > 1


-----------------------------------------------------------------------------
(* C28: findAllPaths against findShortestPath *)

\* A findShortestPath run to its return.
RECURSIVE RunShortest(_, _)
RunShortest(g, r) == IF r.pc = "done" THEN r ELSE RunShortest(g, ShortestStep(g, r))

\* findShortestPath(start, end, graph): the NotePath or null it returns.
FindShortestPathOf(g, start, end) == RunShortest(g, ShortestCall(start, end)).ret

\* C28: for all documents start and end and every maxLength >= 0,
\* findAllPaths(start, end, maxLength) is non-empty exactly when
\* findShortestPath(start, end) returns a path of length at most maxLength,
\* and then the first path of the findAllPaths result has exactly the length
\* findShortestPath reports.
C28_AllPathsMeetsShortest ==
    AllPathsDone =>
        LET shortest == FindShortestPathOf(graph, m.start, m.end)
            within == shortest # Null /\ shortest.length <= m.maxLength
        IN  /\ (Len(m.ret) > 0) <=> within
            /\ Len(m.ret) > 0 => m.ret[1].length = shortest.length


-----------------------------------------------------------------------------
(* C29: the paths of one findAllPaths result *)

\* C29: on every graph, one findAllPaths(start, end, maxLength) result never
\* holds the same sequence of documents twice.
C29_NoDuplicatePaths ==
    AllPathsDone =>
        \A i, j \in 1..Len(m.ret) : i # j => m.ret[i].path # m.ret[j].path

-----------------------------------------------------------------------------
(* C30: parents and children are nodes *)

\* C30: after every build(), every document that appears in some document's
\* parents list or children list is itself a node of the graph: getAllFiles()
\* returns it.
C30_RelativesAreNodes ==
    Built =>
        \A i \in 1..Len(graph) :
            Range(graph[i].parents) \cup Range(graph[i].children)
                \subseteq Range(GetAllFiles(graph))

=============================================================================
